---- MODULE Spec2Model ----
(***************************************************************************)
(* Model of the LTI library in src/src/lib.rs: ContinuousTransferFunction, *)
(* DiscreteTransferFunction, ContinuousStateSpace, DiscreteStateSpace,     *)
(* the controllable-canonical conversion (From) and to_discrete.           *)
(*                                                                         *)
(* f64 values are modelled as extended rationals <<n, d>> in lowest terms  *)
(* with d >= 0: d > 0 is the finite value n/d, <<1,0>> is +inf, <<-1,0>>   *)
(* is -inf and <<0,0>> is NaN.  Rounding and the sign of zero are not      *)
(* modelled; every operation is the exact one.                             *)
(***************************************************************************)
EXTENDS Integers, Sequences, FiniteSets, TLC

VARIABLES
    sig,            \* the input samples the caller feeds to step, in order
    tf,             \* the ContinuousTransferFunction, or None
    css,            \* the ContinuousStateSpace, or None
    dss,            \* the DiscreteStateSpace, or None
    dtf,            \* the DiscreteTransferFunction, or None
    tfOut,          \* values returned by DiscreteTransferFunction::step so far
    ssOut,          \* values returned by DiscreteStateSpace::step so far
    panic,          \* NoPanic, or the message of the panic that ended the run
    prov            \* what the caller passed to the constructors/conversions

vars == <<sig, tf, css, dss, dtf, tfOut, ssOut, panic, prov>>

\* an object that has not been constructed
None == [absent |-> TRUE]
NoPanic == "no panic"

\* ------------------------------------------------------------- bounds
MaxLen == 2     \* longest num / den drawn from Coefs
MaxSig == 3     \* longest input signal drawn from SigVals

\* ------------------------------------------------------------- f64
Abs(n) == IF n < 0 THEN -n ELSE n
Sign(n) == IF n < 0 THEN -1 ELSE IF n > 0 THEN 1 ELSE 0

RECURSIVE Gcd(_, _)
Gcd(a, b) == IF b = 0 THEN a ELSE Gcd(b, a % b)

\* the value n/d in lowest terms (d = 0: an infinity or NaN)
Q(n, d) ==
    IF d = 0 THEN <<Sign(n), 0>>
    ELSE LET g == Gcd(Abs(n), Abs(d))
             s == IF d < 0 THEN -1 ELSE 1
         IN <<(s * n) \div g, (s * d) \div g>>

RZero == <<0, 1>>
ROne == <<1, 1>>
NaN == <<0, 0>>
IsFinite(x) == x[2] # 0

RNeg(x) == <<-x[1], x[2]>>
RAdd(x, y) ==
    IF x[2] = 0 /\ y[2] = 0
    THEN (IF x = y THEN x ELSE NaN)
    ELSE Q(x[1] * y[2] + y[1] * x[2], x[2] * y[2])
RSub(x, y) == RAdd(x, RNeg(y))
RMul(x, y) == Q(x[1] * y[1], x[2] * y[2])
RInv(x) ==
    IF x[1] > 0 THEN <<x[2], x[1]>>
    ELSE IF x[1] < 0 THEN <<-x[2], -x[1]>>
    ELSE <<x[2], 0>>
RDiv(x, y) == RMul(x, RInv(y))

\* ------------------------------------------------------------- DVector
VZeros(n) == [i \in 1..n |-> RZero]
VDivScalar(v, s) == [i \in 1..Len(v) |-> RDiv(v[i], s)]
\* v.rows(first, count), first counted from 0
VRows(v, first, count) == [i \in 1..count |-> v[first + i]]

RECURSIVE SumUpTo(_, _)
\* s[1] + ... + s[n], left to right
SumUpTo(s, n) == IF n = 0 THEN RZero ELSE RAdd(SumUpTo(s, n - 1), s[n])
Sum(s) == SumUpTo(s, Len(s))
Dot(a, b) == Sum([i \in 1..Len(a) |-> RMul(a[i], b[i])])

\* ------------------------------------------------------------- usize
\* A usize value is held as its representative modulo 2^64 in
\* [-2^63, 2^63): usize::MAX is -1.  a - b without overflow checks:
WrapSub(a, b) == a - b
\* the subtraction a - b leaves the range of usize
Underflows(a, b) == a < b
\* overflow-checks of the build: on (debug), an overflowing subtraction
\* panics; off (release), it wraps
BuildProfiles == BOOLEAN

\* ------------------------------------------------------------- inputs
R(n, d) == Q(n, d)
Coefs == {R(0, 1), R(1, 1), R(-2, 1)}
SigVals == {R(0, 1), R(1, 1)}

RECURSIVE SeqsOfLen(_, _)
SeqsOfLen(S, n) ==
    IF n = 0 THEN {<<>>}
    ELSE {Append(s, x) : s \in SeqsOfLen(S, n - 1), x \in S}
SeqsUpTo(S, n) == UNION {SeqsOfLen(S, k) : k \in 0..n}

\* the coefficient and input vectors of the tests (lib.rs 182-187, 222-223,
\* 241-242)
TestNum1 == <<R(13, 10)>>
TestDen1 == <<R(2, 1), R(3, 2)>>
TestInputs == <<R(1, 5), R(2, 5), R(3, 5), R(4, 5), R(1, 1)>>
TestOutputs1 == <<R(13, 100), R(13, 80), R(429, 1600), R(2041, 6400), R(10517, 25600)>>
TestNum2 == <<R(1, 1), R(3, 1), R(3, 1)>>
TestDen2 == <<R(1, 1), R(2, 1), R(1, 1)>>
TestNum3 == <<R(1, 1), R(2, 1), R(3, 1)>>
TestDen3 == <<R(1, 1), R(2, 1), R(3, 1), R(4, 1)>>
TestDt == R(1, 10)

Signals == SeqsUpTo(SigVals, MaxSig) \cup {TestInputs}
CoefVecs == SeqsUpTo(Coefs, MaxLen)

\* ------------------------------------------------------------- panics
PanicIndex == "index out of bounds"
PanicOverflow == "attempt to subtract with overflow"
\* a slice or stack of usize::MAX rows: the matrix library's bounds panic
\* or a read outside the vector; the call returns nothing
PanicSlice == "matrix rows out of bounds"
PanicAssertOrder == "The order of the denominator must be greater than or equal to the order of the numerator."
PanicUnwrap == "called Option::unwrap() on a None value"

\* ------------------------------------------------------------- DiscreteTransferFunction
DTFNew(num, den, dt) ==
    [num |-> num, den |-> den,
     inputs |-> VZeros(Len(num)), outputs |-> VZeros(Len(den)), dt |-> dt]

\* the shift running upwards, which smears reg[0] over the register
ShiftRegisterAscending(reg) ==
    [i \in 1..Len(reg) |-> reg[1]]

\* for i in (1..reg.len()).rev() { reg[i] = reg[i - 1]; }
ShiftRegister(reg) ==
    [i \in 1..Len(reg) |-> IF i = 1 THEN reg[1] ELSE reg[i - 1]]

\* the feedback taken over the whole of den and outputs
FeedbackDotWhole(den, outputs) ==
    Dot(den, outputs)

\* dot(den[1:], outputs[1:])
FeedbackDot(den, outputs) ==
    Dot(VRows(den, 1, Len(den) - 1), VRows(outputs, 1, Len(outputs) - 1))

\* One call of step on filter f: the filter afterwards, the value returned
\* and the panic that ended the call (NoPanic when it returned).
DTFStepResult(f, input, checks) ==
    IF Len(f.inputs) = 0
    THEN \* self.inputs[0] = input on an empty vector
         [filter |-> f, output |-> NaN, panic |-> PanicIndex]
    ELSE
    LET inputs1 == [ShiftRegister(f.inputs) EXCEPT ![1] = input]
        output1 == RAdd(RZero, Dot(f.num, inputs1))
        f1 == [f EXCEPT !.inputs = inputs1]
    IN  IF Underflows(Len(f.den), 1)
        THEN \* self.den.len() - 1 on an empty den; without overflow
             \* checks den.rows(1, usize::MAX) is out of bounds
             [filter |-> f1, output |-> NaN,
              panic |-> IF checks THEN PanicOverflow ELSE PanicSlice]
        ELSE
        LET outputs1 == ShiftRegister(f.outputs)
            output2 == RSub(output1, FeedbackDot(f.den, outputs1))
            output3 == RDiv(output2, f.den[1])
        IN  [filter |-> [f1 EXCEPT !.outputs = [outputs1 EXCEPT ![1] = output3]],
             output |-> output3, panic |-> NoPanic]

NewDTF(num, den, dt) ==
    /\ dtf = None
    /\ panic = NoPanic
    /\ dtf' = DTFNew(num, den, dt)
    /\ prov' = [prov EXCEPT !.dtf = [num |-> num, den |-> den, dt |-> dt]]
    /\ UNCHANGED <<sig, tf, css, dss, tfOut, ssOut, panic>>

\* the caller maps step over the input samples
DTFStep ==
    /\ dtf # None
    /\ panic = NoPanic
    /\ Len(tfOut) < Len(sig)
    /\ \E checks \in BuildProfiles :
       LET r == DTFStepResult(dtf, sig[Len(tfOut) + 1], checks)
       IN  /\ dtf' = r.filter
           /\ panic' = r.panic
           /\ tfOut' = IF r.panic = NoPanic THEN Append(tfOut, r.output) ELSE tfOut
    /\ UNCHANGED <<sig, tf, css, dss, ssOut, prov>>

\* prov.css: "none", "new" or "from" (the call made, also when it panicked);
\* prov.dss: "none", "new", "realization" (new on the matrices of the
\* ContinuousStateSpace) or "to_discrete"; prov.disc: the arguments of
\* to_discrete; prov.underflow: a usize subtraction left the range of usize
NoProv == [dtf |-> None, css |-> "none", dss |-> "none", disc |-> None,
           underflow |-> FALSE]

InitCommon ==
    /\ tf = None /\ css = None /\ dss = None /\ dtf = None
    /\ tfOut = <<>> /\ ssOut = <<>>
    /\ panic = NoPanic
    /\ prov = NoProv

\* ------------------------------------------------------------- SpecTF
NumChoices == CoefVecs \cup {TestNum1, TestNum2, TestNum3}
DenChoices == CoefVecs \cup {TestDen1, TestDen2, TestDen3}

TFConstruct == \E num \in NumChoices, den \in DenChoices : NewDTF(num, den, TestDt)
TFStep == DTFStep

InitTF == InitCommon /\ sig \in Signals
NextTF == TFConstruct \/ TFStep
SpecTF == InitTF /\ [][NextTF]_vars

\* ------------------------------------------------------------- claims on SpecTF
\* the sample s[k] of a sequence numbered from 1, and 0 outside it
At(s, k) == IF k >= 1 /\ k <= Len(s) THEN s[k] ELSE RZero

\* the k-th output (k from 1) of the direct-form-I recurrence over inputs u
\* and the outputs y before it
DirectForm(num, den, u, y, k) ==
    LET ff == [i \in 1..Len(num) |-> RMul(num[i], At(u, k - (i - 1)))]
        fb == [j \in 1..(Len(den) - 1) |-> RMul(den[j + 1], At(y, k - j))]
    IN  RDiv(RSub(Sum(ff), Sum(fb)), den[1])

\* C1: on a freshly constructed filter with den[0] != 0, the k-th call of
\* step returns the direct-form-I value
\* (sum num[i]*u[k-i] - sum_{j>=1} den[j]*y[k-j]) / den[0], and the inputs
\* 0.2..1.0 to num=[1.3], den=[2.0,1.5] give 0.13, 0.1625, 0.268125,
\* 0.31890625, 0.4108203125.
C1_DirectFormRecurrence ==
    (dtf # None /\ Len(prov.dtf.den) > 0 /\ prov.dtf.den[1] # RZero) =>
        /\ \A k \in 1..Len(tfOut) :
               tfOut[k] = DirectForm(prov.dtf.num, prov.dtf.den, sig, tfOut, k)
        /\ (prov.dtf.num = TestNum1 /\ prov.dtf.den = TestDen1 /\ sig = TestInputs) =>
               \A k \in 1..Len(tfOut) : tfOut[k] = TestOutputs1[k]

C1_Witness ==
    /\ dtf # None /\ dtf.num = TestNum1 /\ dtf.den = TestDen1
    /\ sig = TestInputs
    /\ tfOut = TestOutputs1

\* C8: every DiscreteTransferFunction that exists has a non-empty den with
\* den[0] != 0 (new checked it), so step never divides by zero.
C8_DenCheckedAtConstruction ==
    dtf # None => (Len(dtf.den) > 0 /\ dtf.den[1] # RZero)

\* C10: after k returned calls of step on a fresh filter, inputs[i] is the
\* input of call k-i and outputs[j] the value returned by call k-j (0 where
\* there was no such call), the registers keep the lengths of num and den,
\* and num, den, dt are as passed to new.
C10_RegisterInvariant ==
    (dtf # None /\ panic = NoPanic) =>
        LET k == Len(tfOut) IN
        /\ Len(dtf.inputs) = Len(prov.dtf.num)
        /\ Len(dtf.outputs) = Len(prov.dtf.den)
        /\ \A i \in 0..(Len(dtf.inputs) - 1) : dtf.inputs[i + 1] = At(sig, k - i)
        /\ \A j \in 0..(Len(dtf.outputs) - 1) : dtf.outputs[j + 1] = At(tfOut, k - j)
        /\ dtf.num = prov.dtf.num /\ dtf.den = prov.dtf.den /\ dtf.dt = prov.dtf.dt

C10_Witness ==
    /\ dtf # None /\ panic = NoPanic
    /\ dtf.num = TestNum2 /\ dtf.den = TestDen3
    /\ sig = TestInputs
    /\ Len(tfOut) = 5
    /\ dtf.inputs = <<sig[5], sig[4], sig[3]>>
    /\ dtf.outputs = <<tfOut[5], tfOut[4], tfOut[3], tfOut[2]>>

\* ------------------------------------------------------------- DMatrix
\* A matrix is [nr, nc, e] with e[i][j] its element in row i, column j,
\* both from 1.  Mat(nr, nc, f) has the elements f[<<i, j>>].
Mat(nr, nc, f) ==
    [nr |-> nr, nc |-> nc, e |-> [i \in 1..nr |-> [j \in 1..nc |-> f[<<i, j>>]]]]
Cells(nr, nc) == (1..nr) \X (1..nc)

MIdentity(nr, nc) == Mat(nr, nc, [p \in Cells(nr, nc) |->
        IF p[1] = p[2] THEN ROne ELSE RZero])
MAdd(A, B) == Mat(A.nr, A.nc, [p \in Cells(A.nr, A.nc) |->
        RAdd(A.e[p[1]][p[2]], B.e[p[1]][p[2]])])
MSub(A, B) == Mat(A.nr, A.nc, [p \in Cells(A.nr, A.nc) |->
        RSub(A.e[p[1]][p[2]], B.e[p[1]][p[2]])])
MScale(s, A) == Mat(A.nr, A.nc, [p \in Cells(A.nr, A.nc) |->
        RMul(s, A.e[p[1]][p[2]])])
MNeg(A) == Mat(A.nr, A.nc, [p \in Cells(A.nr, A.nc) |->
        RNeg(A.e[p[1]][p[2]])])
MTranspose(A) == Mat(A.nc, A.nr, [p \in Cells(A.nc, A.nr) |->
        A.e[p[2]][p[1]]])
MMul(A, B) ==
    Mat(A.nr, B.nc, [p \in Cells(A.nr, B.nc) |->
        Sum([k \in 1..A.nc |-> RMul(A.e[p[1]][k], B.e[k][p[2]])])])
\* stack![A; B]
MStack(A, B) ==
    Mat(A.nr + B.nr, A.nc, [p \in Cells(A.nr + B.nr, A.nc) |->
        IF p[1] <= A.nr THEN A.e[p[1]][p[2]] ELSE B.e[p[1] - A.nr][p[2]]])
\* DMatrix::from_row_slice(nr, nc, s)
FromRowSlice(nr, nc, s) == Mat(nr, nc, [p \in Cells(nr, nc) |->
        s[(p[1] - 1) * nc + p[2]]])
\* a DVector as the n x 1 matrix it is
ColOf(v) == Mat(Len(v), 1, [p \in Cells(Len(v), 1) |->
        v[p[1]]])
\* matrix * DVector
MulVec(A, v) ==
    [i \in 1..A.nr |-> Sum([k \in 1..A.nc |-> RMul(A.e[i][k], v[k])])]
MatFinite(A) == \A i \in 1..A.nr : \A j \in 1..A.nc : IsFinite(A.e[i][j])

Minor(A, r, c) ==
    Mat(A.nr - 1, A.nc - 1, [p \in Cells(A.nr - 1, A.nc - 1) |->
        A.e[IF p[1] < r THEN p[1] ELSE p[1] + 1][IF p[2] < c THEN p[2] ELSE p[2] + 1]])
RECURSIVE Det(_)
Det(A) ==
    IF A.nr = 0 THEN ROne
    ELSE Sum([j \in 1..A.nc |->
                 RMul(IF j % 2 = 1 THEN A.e[1][j] ELSE RNeg(A.e[1][j]),
                      Det(Minor(A, 1, j)))])
Inverse(A) ==
    LET d == Det(A) IN
    Mat(A.nr, A.nc, [p \in Cells(A.nr, A.nc) |->
        RDiv(IF (p[1] + p[2]) % 2 = 0 THEN Det(Minor(A, p[2], p[1]))
                             ELSE RNeg(Det(Minor(A, p[2], p[1]))), d)])
\* m.lu().solve(&b): None when m is not invertible, else the X with m X = b
Solve(m, b) == IF Det(m) = RZero THEN None ELSE MMul(Inverse(m), b)

\* ------------------------------------------------------------- ContinuousTransferFunction
CTFNew(num, den) == [num |-> num, den |-> den]

NewCTF(num, den) ==
    /\ tf = None
    /\ panic = NoPanic
    /\ tf' = CTFNew(num, den)
    /\ UNCHANGED <<sig, css, dss, dtf, tfOut, ssOut, panic, prov>>

\* ------------------------------------------------------------- From<ContinuousTransferFunction>
\* the assert's condition, accepting a num one longer than den
FromOrderOkOffByOne(t) == Len(t.den) + 1 >= Len(t.num)

\* assert!(tf.den.len() >= tf.num.len(), ...)
FromOrderOk(t) == Len(t.den) >= Len(t.num)

\* num left-padded to the length of den and divided by den[0]
FromNum(t) == VDivScalar(VZeros(Len(t.den) - Len(t.num)) \o t.num, t.den[1])
FromDen(t) == VDivScalar(t.den, t.den[1])

\* the first row without its negation
FromAUnnegated(den, n) ==
    MStack(MTranspose(ColOf(VRows(den, 1, n))), MIdentity(n - 1, n))

FromA(den, n) ==
    MStack(MNeg(MTranspose(ColOf(VRows(den, 1, n)))), MIdentity(n - 1, n))
FromB(n) == MIdentity(n, 1)

\* C without the part of num[0] that D carries
FromCUncorrected(num, den, n) ==
    FromRowSlice(1, n, VRows(num, 1, n))

FromC(num, den, n) ==
    MSub(FromRowSlice(1, n, VRows(num, 1, n)),
         MScale(num[1], FromRowSlice(1, n, VRows(den, 1, n))))
FromD(num) == FromRowSlice(1, 1, <<num[1]>>)

FromFailed(msg, under) == [css |-> None, panic |-> msg, underflow |-> under]

\* the outcomes of ContinuousStateSpace::from(t)
FromOutcomes(t, checks) ==
    IF ~FromOrderOk(t) THEN {FromFailed(PanicAssertOrder, FALSE)}
    ELSE IF Underflows(Len(t.den), 1)
    THEN \* n = den.len() - 1 on an empty den; without overflow checks the
         \* next line indexes tf.den[0]
         {FromFailed(IF checks THEN PanicOverflow ELSE PanicIndex, TRUE)}
    ELSE
    LET n == Len(t.den) - 1
        num == FromNum(t)
        den == FromDen(t)
    IN  IF Underflows(n, 1)
        THEN \* identity(n - 1, n) with n = 0
             IF checks THEN {FromFailed(PanicOverflow, TRUE)}
             ELSE \* n - 1 is usize::MAX: the row -den[1..] (1 x 0) is stacked
                  \* on identity(usize::MAX, 0), 1 + usize::MAX rows in all.
                  \* The stacking is the matrix library's: it ends in its
                  \* bounds panic or, the row count having wrapped to
                  \* WrapSub(n, 1) + 1, in an empty a.
                  {FromFailed(PanicSlice, TRUE),
                   [css |-> [a |-> MIdentity(WrapSub(n, 1) + 1, n), b |-> FromB(n),
                             c |-> FromC(num, den, n), d |-> FromD(num)],
                    panic |-> NoPanic, underflow |-> TRUE]}
        ELSE {[css |-> [a |-> FromA(den, n), b |-> FromB(n),
                        c |-> FromC(num, den, n), d |-> FromD(num)],
               panic |-> NoPanic, underflow |-> FALSE]}

FromTF ==
    /\ tf # None
    /\ css = None
    /\ prov.css = "none"
    /\ panic = NoPanic
    /\ \E checks \in BuildProfiles : \E r \in FromOutcomes(tf, checks) :
           /\ css' = r.css
           /\ panic' = r.panic
           /\ prov' = [prov EXCEPT !.css = "from", !.underflow = r.underflow]
    /\ UNCHANGED <<sig, tf, dss, dtf, tfOut, ssOut>>

\* ------------------------------------------------------------- ContinuousStateSpace
CSSNew(a, b, c, d) == [a |-> a, b |-> b, c |-> c, d |-> d]

NewCSS(a, b, c, d) ==
    /\ css = None
    /\ prov.css = "none"
    /\ panic = NoPanic
    /\ css' = CSSNew(a, b, c, d)
    /\ prov' = [prov EXCEPT !.css = "new"]
    /\ UNCHANGED <<sig, tf, dss, dtf, tfOut, ssOut, panic>>

\* ------------------------------------------------------------- DiscreteStateSpace
DSSNew(a, b, c, d, dt) ==
    [a |-> a, b |-> b, c |-> c, d |-> d, x |-> VZeros(a.nr), dt |-> dt]

\* step with the state advanced before the output is formed
DSSStepResultPostUpdate(s, input) ==
    LET x1 == [i \in 1..s.a.nr |-> RAdd(MulVec(s.a, s.x)[i], RMul(s.b.e[i][1], input))]
        output == MAdd(ColOf(MulVec(s.c, x1)), MScale(input, s.d))
    IN  [ss |-> [s EXCEPT !.x = x1], output |-> output.e[1][1]]

\* One call of step on s: the model afterwards and the value returned.
DSSStepResult(s, input) ==
    LET output == MAdd(ColOf(MulVec(s.c, s.x)), MScale(input, s.d))
        x1 == [i \in 1..s.a.nr |-> RAdd(MulVec(s.a, s.x)[i], RMul(s.b.e[i][1], input))]
    IN  [ss |-> [s EXCEPT !.x = x1], output |-> output.e[1][1]]

NewDSS(a, b, c, d, dt, how) ==
    /\ dss = None
    /\ panic = NoPanic
    /\ dss' = DSSNew(a, b, c, d, dt)
    /\ prov' = [prov EXCEPT !.dss = how]
    /\ UNCHANGED <<sig, tf, css, dtf, tfOut, ssOut, panic>>

DSSStep ==
    /\ dss # None
    /\ panic = NoPanic
    /\ Len(ssOut) < Len(sig)
    /\ LET r == DSSStepResult(dss, sig[Len(ssOut) + 1])
       IN  /\ dss' = r.ss
           /\ ssOut' = Append(ssOut, r.output)
    /\ UNCHANGED <<sig, tf, css, dtf, tfOut, panic, prov>>

\* ------------------------------------------------------------- to_discrete
\* I - dt*A, alpha left out
ImaWithoutAlpha(a, dt, alpha) ==
    MSub(MIdentity(a.nr, a.nr), MScale(dt, a))

\* ima = I - alpha * dt * A
Ima(a, dt, alpha) ==
    MSub(MIdentity(a.nr, a.nr), MScale(RMul(alpha, dt), a))

\* the result of to_discrete, or None when a solve returned None
ToDiscreteResult(s, dt, alpha) ==
    LET ima == Ima(s.a, dt, alpha)
        ad == Solve(ima, MAdd(MIdentity(s.a.nr, s.a.nr),
                              MScale(RMul(RSub(ROne, alpha), dt), s.a)))
        bd == Solve(ima, MScale(dt, s.b))
        cdT == Solve(MTranspose(ima), MTranspose(s.c))
    IN  IF ad = None \/ bd = None \/ cdT = None THEN None
        ELSE DSSNew(ad, bd, MTranspose(cdT),
                    MAdd(s.d, MScale(alpha, MMul(s.c, bd))), dt)

\* to_discrete is taken on coefficient matrices whose entries are all finite
ToDiscrete(dt, alpha) ==
    /\ css # None
    /\ dss = None
    /\ prov.disc = None
    /\ panic = NoPanic
    /\ MatFinite(css.a) /\ MatFinite(css.b) /\ MatFinite(css.c) /\ MatFinite(css.d)
    /\ LET r == ToDiscreteResult(css, dt, alpha)
       IN  /\ dss' = r
           /\ panic' = IF r = None THEN PanicUnwrap ELSE NoPanic
           /\ prov' = [prov EXCEPT !.disc = [dt |-> dt, alpha |-> alpha],
                                   !.dss = IF r = None THEN "none" ELSE "to_discrete"]
    /\ UNCHANGED <<sig, tf, css, dtf, tfOut, ssOut>>

\* ------------------------------------------------------------- matrices drawn
Dims == {1, 2}
SquareMats(n) == {FromRowSlice(n, n, v) : v \in SeqsOfLen(Coefs, n * n)}
HalfCol(n) == Mat(n, 1, [p \in Cells(n, 1) |->
        R(1, 2)])
CountRow(n) == Mat(1, n, [p \in Cells(1, n) |->
        R(p[2], 1)])
DrawnModels ==
    UNION {{[a |-> a, b |-> b, c |-> CountRow(n), d |-> FromRowSlice(1, 1, <<R(2, 1)>>)] :
                a \in SquareMats(n), b \in {MIdentity(n, 1), HalfCol(n)}} : n \in Dims}

\* the matrices of test_step_discrete_state_space (lib.rs 201-204)
TestStepModel ==
    [a |-> FromRowSlice(2, 2, <<R(-2, 1), R(-3, 1), R(1, 1), R(0, 1)>>),
     b |-> FromRowSlice(2, 1, <<R(1, 1), R(0, 1)>>),
     c |-> FromRowSlice(1, 2, <<R(1, 1), R(2, 1)>>),
     d |-> FromRowSlice(1, 1, <<R(2, 1)>>)]
TestStepOutputs == <<R(2, 5), R(1, 1), R(8, 5), R(8, 5), R(14, 5)>>

\* the matrices of test_continuous_state_space_to_discrete_state_space
\* (lib.rs 260-273)
TestContModel ==
    [a |-> MIdentity(2, 2),
     b |-> FromRowSlice(2, 1, <<R(1, 2), R(1, 2)>>),
     c |-> FromRowSlice(3, 2, <<R(3, 4), R(1, 1), R(1, 1), R(1, 1), R(1, 1), R(1, 4)>>),
     d |-> FromRowSlice(3, 1, <<R(0, 1), R(0, 1), R(-33, 100)>>)]
TestDiscDt == R(1, 2)
TestDiscAlpha == R(1, 3)
TestDiscModel ==
    [a |-> MScale(R(8, 5), MIdentity(2, 2)),
     b |-> FromRowSlice(2, 1, <<R(3, 10), R(3, 10)>>),
     c |-> FromRowSlice(3, 2, <<R(9, 10), R(6, 5), R(6, 5), R(6, 5), R(6, 5), R(3, 10)>>),
     d |-> FromRowSlice(3, 1, <<R(7, 40), R(1, 5), R(-41, 200)>>)]

Dts == {R(1, 2), R(1, 1)}
Alphas == {R(0, 1), R(1, 3), R(1, 2), R(1, 1)}


\* ------------------------------------------------------------- SpecConv
\* a program converts a transfer function, or builds the matrices itself,
\* and discretizes
ConvConstructTF ==
    /\ css = None
    /\ \E num \in NumChoices, den \in DenChoices : NewCTF(num, den)
ConvFrom == FromTF
ConvConstructSS ==
    /\ tf = None
    /\ \E m \in DrawnModels \cup {TestContModel} : NewCSS(m.a, m.b, m.c, m.d)
ConvToDiscrete == \E dt \in Dts, alpha \in Alphas : ToDiscrete(dt, alpha)

InitConv == InitCommon /\ sig = <<>>
NextConv == ConvConstructTF \/ ConvFrom \/ ConvConstructSS \/ ConvToDiscrete
SpecConv == InitConv /\ [][NextConv]_vars

\* ------------------------------------------------------------- SpecSS
SSConstruct ==
    \E m \in DrawnModels \cup {TestStepModel} : NewDSS(m.a, m.b, m.c, m.d, TestDt, "new")
SSStep == DSSStep

InitSS == InitCommon /\ sig \in Signals
NextSS == SSConstruct \/ SSStep
SpecSS == InitSS /\ [][NextSS]_vars

\* ------------------------------------------------------------- SpecRT
\* A transfer function is realized as a state-space model and, with the same
\* coefficients, run as a DiscreteTransferFunction; each sample is given to
\* the filter and then to the state-space model.
RTConstructTF == \E num \in NumChoices, den \in DenChoices : NewCTF(num, den)
RTFrom == FromTF
RTRealize ==
    /\ css # None
    /\ NewDSS(css.a, css.b, css.c, css.d, TestDt, "realization")
RTConstructDTF ==
    /\ tf # None
    /\ dss # None
    /\ NewDTF(tf.num, tf.den, TestDt)
RTStepTF ==
    /\ dss # None
    /\ Len(tfOut) = Len(ssOut)
    /\ DTFStep
RTStepSS ==
    /\ dtf # None
    /\ Len(ssOut) < Len(tfOut)
    /\ DSSStep

InitRT == InitCommon /\ sig \in Signals
NextRT == RTConstructTF \/ RTFrom \/ RTRealize \/ RTConstructDTF \/ RTStepTF \/ RTStepSS
SpecRT == InitRT /\ [][NextRT]_vars

\* ------------------------------------------------------------- claims on SpecSS
RECURSIVE StateAfter(_, _, _)
\* the state x[k] of x[k+1] = A x[k] + B u[k] from x[0] = 0, inputs u from 1
StateAfter(m, u, k) ==
    IF k = 0 THEN VZeros(m.a.nr)
    ELSE LET x == StateAfter(m, u, k - 1)
         IN  [i \in 1..m.a.nr |-> RAdd(MulVec(m.a, x)[i], RMul(m.b.e[i][1], u[k]))]

\* C2: the k-th call of DiscreteStateSpace::step returns C*x + D*u with x the
\* state before the call, then x becomes A*x + B*u; x starts at zero and
\* carries over; the matrices of the test give 0.4, 1.0, 1.6, 1.6, 2.8.
C2_OutputFromPreUpdateState ==
    dss # None =>
        /\ dss.x = StateAfter(dss, sig, Len(ssOut))
        /\ \A k \in 1..Len(ssOut) :
               ssOut[k] = RAdd(MulVec(dss.c, StateAfter(dss, sig, k - 1))[1],
                               RMul(dss.d.e[1][1], sig[k]))
        /\ ([a |-> dss.a, b |-> dss.b, c |-> dss.c, d |-> dss.d] = TestStepModel
            /\ sig = TestInputs) =>
               \A k \in 1..Len(ssOut) : ssOut[k] = TestStepOutputs[k]

C2_Witness ==
    /\ dss # None
    /\ [a |-> dss.a, b |-> dss.b, c |-> dss.c, d |-> dss.d] = TestStepModel
    /\ sig = TestInputs
    /\ ssOut = TestStepOutputs

\* ------------------------------------------------------------- claims on SpecRT
RoundTripCase ==
    /\ dss # None /\ prov.dss = "realization" /\ prov.css = "from"
    /\ dtf # None /\ prov.dtf.num = tf.num /\ prov.dtf.den = tf.den
    /\ Len(tf.den) > 0 /\ tf.den[1] # RZero

SameOutputs == \A k \in 1..Len(ssOut) : k <= Len(tfOut) => ssOut[k] = tfOut[k]

\* C3 as claimed: for every proper transfer function (len(num) <= len(den),
\* den[0] != 0) the state-space model from ContinuousStateSpace::from,
\* stepped from zero state, returns the outputs of
\* DiscreteTransferFunction::new(num, den) stepped over the same inputs.
C3_RoundTripProper ==
    (RoundTripCase /\ Len(tf.num) <= Len(tf.den)) => SameOutputs

\* C3 as amended: the state-space model returns the outputs of the
\* DiscreteTransferFunction delayed by len(den) - len(num) samples, zeros
\* first; the two agree sample for sample when len(num) = len(den).
C3_RoundTripDelayed ==
    (RoundTripCase /\ Len(tf.num) <= Len(tf.den)) =>
        LET delay == Len(tf.den) - Len(tf.num) IN
        \A k \in 1..Len(ssOut) :
            k - delay <= Len(tfOut) => ssOut[k] = At(tfOut, k - delay)

C3_Witness ==
    /\ RoundTripCase
    /\ tf.num = TestNum1 /\ tf.den = TestDen1
    /\ sig = TestInputs
    /\ Len(ssOut) = 5 /\ Len(tfOut) = 5
    /\ ssOut[5] = tfOut[4] /\ ssOut[5] # tfOut[5]

\* ------------------------------------------------------------- claims on SpecConv
\* C4: for n = len(den) - 1 >= 1, with num left-padded to len(den) and both
\* divided by den[0], from(tf) gives A (n x n) with first row -den[1..n] and
\* the shifted identity below, B = [1,0,..,0]^T, C = num[1..n] -
\* num[0]*den[1..n] and D = [num[0]]; the two tests' matrices come out.
C4_ControllableCanonicalForm ==
    (css # None /\ prov.css = "from" /\ Len(tf.den) >= 2) =>
        LET n == Len(tf.den) - 1
            pad == Len(tf.den) - Len(tf.num)
            nn(i) == IF i < pad THEN RDiv(RZero, tf.den[1])
                     ELSE RDiv(tf.num[i - pad + 1], tf.den[1])
            dd(i) == RDiv(tf.den[i + 1], tf.den[1])
        IN  /\ css.a.nr = n /\ css.a.nc = n
            /\ \A j \in 1..n : css.a.e[1][j] = RNeg(dd(j))
            /\ \A i \in 2..n : \A j \in 1..n :
                   css.a.e[i][j] = IF j = i - 1 THEN ROne ELSE RZero
            /\ css.b.nr = n /\ css.b.nc = 1
            /\ \A i \in 1..n : css.b.e[i][1] = IF i = 1 THEN ROne ELSE RZero
            /\ css.c.nr = 1 /\ css.c.nc = n
            /\ \A j \in 1..n : css.c.e[1][j] = RSub(nn(j), RMul(nn(0), dd(j)))
            /\ css.d.nr = 1 /\ css.d.nc = 1 /\ css.d.e[1][1] = nn(0)
            /\ (tf.num = TestNum2 /\ tf.den = TestDen2) =>
                   /\ css.a = FromRowSlice(2, 2, <<R(-2, 1), R(-1, 1), R(1, 1), R(0, 1)>>)
                   /\ css.c = FromRowSlice(1, 2, <<R(1, 1), R(2, 1)>>)
                   /\ css.d = FromRowSlice(1, 1, <<R(1, 1)>>)
            /\ (tf.num = TestNum3 /\ tf.den = TestDen3) =>
                   /\ css.c = FromRowSlice(1, 3, <<R(1, 1), R(2, 1), R(3, 1)>>)
                   /\ css.d = FromRowSlice(1, 1, <<R(0, 1)>>)

C4_Witness ==
    /\ css # None /\ prov.css = "from"
    /\ tf.num = TestNum3 /\ tf.den = TestDen3
    /\ css.a.nr = 3

\* C5: to_discrete(dt, alpha) returns, for M = I - alpha*dt*A invertible,
\* A_d with M A_d = I + (1-alpha)*dt*A, B_d with M B_d = dt*B, C_d with
\* C_d M = C, D_d = D + alpha*(C*B_d), a zero state and the dt given; the
\* test's matrices give 1.6*I, [0.3,0.3]^T, the test's C_d and D_d.
C5_GeneralizedBilinear ==
    (dss # None /\ prov.dss = "to_discrete") =>
        LET dt == prov.disc.dt
            alpha == prov.disc.alpha
            n == css.a.nr
            M == Mat(n, n, [p \in Cells(n, n) |->
        RSub(IF p[1] = p[2] THEN ROne ELSE RZero, RMul(RMul(alpha, dt), css.a.e[p[1]][p[2]]))])
            F == Mat(n, n, [p \in Cells(n, n) |->
        RAdd(IF p[1] = p[2] THEN ROne ELSE RZero,
                          RMul(RMul(RSub(ROne, alpha), dt), css.a.e[p[1]][p[2]]))])
        IN  /\ Det(M) # RZero
            /\ MMul(M, dss.a) = F
            /\ MMul(M, dss.b) = MScale(dt, css.b)
            /\ MMul(dss.c, M) = css.c
            /\ dss.d = MAdd(css.d, MScale(alpha, MMul(css.c, dss.b)))
            /\ dss.x = VZeros(n)
            /\ dss.dt = dt
            /\ (css = TestContModel /\ dt = TestDiscDt /\ alpha = TestDiscAlpha) =>
                   [a |-> dss.a, b |-> dss.b, c |-> dss.c, d |-> dss.d] = TestDiscModel

C5_Witness ==
    /\ dss # None /\ prov.dss = "to_discrete"
    /\ css = TestContModel
    /\ prov.disc = [dt |-> TestDiscDt, alpha |-> TestDiscAlpha]
    /\ dss.a.e[1][1] = R(8, 5)

\* C6: a transfer function with len(num) > len(den) never yields a
\* state-space model: from fails on it (construction having accepted it),
\* and the numerator is as it was given.
C6_ImproperNeverConverted ==
    (tf # None /\ prov.css = "from" /\ Len(tf.num) > Len(tf.den)) =>
        /\ css = None
        /\ panic = PanicAssertOrder

C6_Witness ==
    /\ tf # None /\ prov.css = "from"
    /\ Len(tf.num) = 2 /\ Len(tf.den) = 1
    /\ panic = PanicAssertOrder

\* M = I - alpha*dt*A of the to_discrete call made is singular
SingularCall ==
    /\ prov.disc # None
    /\ Det(Mat(css.a.nr, css.a.nr, [p \in Cells(css.a.nr, css.a.nr) |->
        RSub(IF p[1] = p[2] THEN ROne ELSE RZero,
                    RMul(RMul(prov.disc.alpha, prov.disc.dt), css.a.e[p[1]][p[2]]))])) = RZero

\* C7: when M is singular, to_discrete returns no DiscreteStateSpace and
\* reports the failure to its caller without panicking.
C7_SingularReportedNotPanicked ==
    SingularCall => (dss = None /\ panic = NoPanic)

\* C9: converting a static gain (len(den) = 1) is rejected by a check of the
\* conversion or gives a valid stateless model, and n - 1 never leaves the
\* range of usize.
C9_StaticGainHandled ==
    (tf # None /\ prov.css = "from" /\ Len(tf.den) = 1 /\ Len(tf.num) <= 1) =>
        /\ ~prov.underflow
        /\ \/ panic = PanicAssertOrder
           \/ panic = NoPanic /\ css # None /\ css.a.nr = 0 /\ css.a.nc = 0

====
